---- MODULE Spec2Model ----
(***************************************************************************)
(* Scalar Kalman filter of src/kalman.py (kalman_filter and its four       *)
(* _calculate_* helpers), as a state machine.                              *)
(*                                                                         *)
(* Numbers.  The program computes in IEEE-754 binary64.  A value is        *)
(* modelled as a record [n, d]: a normalised fraction n/d when d > 0, and  *)
(* the three special values of the format when d = 0 (n = 1: +inf,         *)
(* n = -1: -inf, n = 0: not-a-number).  Finite arithmetic is exact, so     *)
(* what is established is the behaviour of the four equations up to the    *)
(* rounding error of the format; the two zeros of the format are one       *)
(* value here.                                                             *)
(***************************************************************************)
EXTENDS Integers, Sequences, FiniteSets, TLC

VARIABLES
    pc,                   \* position in kalman_filter: start, loop, done, raised
    n_of_points,          \* line 69
    measurement_variance, \* line 66
    process_variance,     \* line 74
    noise,                \* the deviates np.random.normal delivers (line 71)
    x,                    \* truth sequence
    z,                    \* measurement sequence
    x_estimate,           \* state estimates
    error_estimate,       \* error estimates
    k,                    \* position of the for loop of line 83
    model_variance,       \* local of the loop body: <<>> until first bound
    kalman_gain,          \* local of the loop body: <<>> until first bound
    executed,             \* history: the values of k the loop body ran for
    noise_b,              \* a second run of the same build: its deviates,
    z_b,                  \*   measurements,
    x_estimate_b,         \*   state estimates
    error_estimate_b      \*   and error estimates

vars == <<pc, n_of_points, measurement_variance, process_variance, noise, x, z,
          x_estimate, error_estimate, k, model_variance, kalman_gain, executed,
          noise_b, z_b, x_estimate_b, error_estimate_b>>

params == <<n_of_points, measurement_variance, process_variance, noise, noise_b>>

(***************************************************************************)
(* Bounds of the exploration.                                              *)
(***************************************************************************)
\* Largest step count explored with every noise sequence.
MaxN == 4

\* Largest step count explored for the pair of runs.
MaxPairN == 3

\* Step count of the long runs (constant noise, no process noise).
LongN == 12

(***************************************************************************)
(* binary64 values and arithmetic.                                         *)
(***************************************************************************)
Abs(i) == IF i < 0 THEN -i ELSE i

Sgn(i) == IF i < 0 THEN -1 ELSE IF i = 0 THEN 0 ELSE 1

\* Euclid's algorithm on naturals.
gcd[a \in Nat, b \in Nat] == IF b = 0 THEN a ELSE gcd[b, a % b]

GCD(a, b) == gcd[a, b]

\* The finite value num/den (den # 0), normalised.
rat[num \in Int, den \in Int] ==
    LET g == gcd[Abs(num), Abs(den)]
    IN  [n |-> Sgn(den) * (num \div g), d |-> Abs(den) \div g]

Rat(num, den) == rat[num, den]

\* A binary64 value: n/d when d > 0, an infinity or not-a-number when d = 0.
Value == [n : Int, d : Nat]

NaN == [n |-> 0, d |-> 0]

Inf(sign) == [n |-> sign, d |-> 0]

Zero == Rat(0, 1)

One == Rat(1, 1)

IsNaN(a) == a.d = 0 /\ a.n = 0

IsFinite(a) == a.d > 0

add[a \in Value, b \in Value] ==
    IF IsNaN(a) \/ IsNaN(b) THEN NaN
    ELSE IF a.d = 0 /\ b.d = 0 THEN (IF a.n = b.n THEN a ELSE NaN)
    ELSE IF a.d = 0 THEN a
    ELSE IF b.d = 0 THEN b
    ELSE LET g == gcd[a.d, b.d]
         IN  rat[a.n * (b.d \div g) + b.n * (a.d \div g), (a.d \div g) * b.d]

\* a + b
Add(a, b) == add[a, b]

\* a - b
Sub(a, b) == add[a, [n |-> -b.n, d |-> b.d]]

mul[a \in Value, b \in Value] ==
    IF IsNaN(a) \/ IsNaN(b) THEN NaN
    ELSE IF a.d = 0 \/ b.d = 0
         THEN (IF a.n = 0 \/ b.n = 0 THEN NaN ELSE Inf(Sgn(a.n) * Sgn(b.n)))
    ELSE LET g == gcd[Abs(a.n), b.d]
             h == gcd[Abs(b.n), a.d]
         IN  rat[(a.n \div g) * (b.n \div h), (a.d \div h) * (b.d \div g)]

\* a * b
Mul(a, b) == mul[a, b]

\* Division of float64 operands raises nothing: 0/0 and inf/inf are
\* not-a-number, x/0 is an infinity (of the sign of x: a zero divisor is
\* taken as +0).
div[a \in Value, b \in Value] ==
    IF IsNaN(a) \/ IsNaN(b) THEN NaN
    ELSE IF a.d = 0 /\ b.d = 0 THEN NaN
    ELSE IF b.d = 0 THEN Zero
    ELSE IF a.d = 0 THEN Inf(a.n * (IF b.n < 0 THEN -1 ELSE 1))
    ELSE IF b.n = 0 THEN (IF a.n = 0 THEN NaN ELSE Inf(Sgn(a.n)))
    ELSE LET g == gcd[Abs(a.n), Abs(b.n)]
             h == gcd[a.d, b.d]
         IN  rat[(a.n \div g) * (b.d \div h), (a.d \div h) * (b.n \div g)]

\* Variant: a zero divisor is masked, the quotient taken as 0.
DivGuarded(a, b) == IF b = Zero THEN Zero ELSE div[a, b]

\* a / b
Div(a, b) == div[a, b]

\* a <= b; every comparison with not-a-number is false.
Leq(a, b) ==
    /\ ~IsNaN(a)
    /\ ~IsNaN(b)
    /\ IF a.d = 0 /\ b.d = 0
       THEN a.n <= b.n
       ELSE LET g == gcd[a.d, b.d]
            IN  a.n * (b.d \div g) <= b.n * (a.d \div g)

\* a < b
Lt(a, b) == Leq(a, b) /\ a # b

(***************************************************************************)
(* The four equations.                                                     *)
(***************************************************************************)
\* Variant: '*' for '+'.
_calculate_model_variance_product(last_error_estimate, pvar) ==
    Mul(last_error_estimate, pvar)

_calculate_model_variance(last_error_estimate, pvar) ==
    Add(last_error_estimate, pvar)

\* Variant: the model variance missing from the denominator.
_calculate_kalman_gain_ratio(mvar, rvar) ==
    Div(mvar, rvar)

_calculate_kalman_gain(mvar, rvar) ==
    Div(mvar, Add(mvar, rvar))

\* Variant: the gain applied to the measurement, not to the innovation.
_calculate_x_estimate_no_innovation(last_x_estimate, gain, measurement) ==
    Add(last_x_estimate, Mul(gain, measurement))

_calculate_x_estimate(last_x_estimate, gain, measurement) ==
    Add(last_x_estimate, Mul(gain, Sub(measurement, last_x_estimate)))

\* Variant: gain - 1 for 1 - gain.
_calculate_error_estimate_sign_slip(gain, mvar) ==
    Mul(Sub(gain, One), mvar)

\* Variant: 1 + gain for 1 - gain.
_calculate_error_estimate_grows(gain, mvar) ==
    Mul(Add(One, gain), mvar)

_calculate_error_estimate(gain, mvar) ==
    Mul(Sub(One, gain), mvar)

(***************************************************************************)
(* kalman_filter.                                                          *)
(***************************************************************************)
\* np.zeros(n)
zeros(n) == [i \in 0 .. n - 1 |-> Zero]

\* arr[i] = v
StoreAt(arr, i, v) == [arr EXCEPT ![i] = v]

\* Variant: range(1, n - 1).
LoopRangeShort(n) == 1 .. n - 2

\* range(1, n)
LoopRange(n) == 1 .. n - 1

\* Values of the variance parameters explored; 1/10 and 0 are the program's.
Variances == {Rat(-1, 10), Zero, Rat(1, 10), One}

\* Deviates of a positive-variance normal distribution explored.
NoiseValues == {Rat(-1, 1), Zero, Rat(1, 2), One}

\* Deviates explored for the pair of runs.
PairNoiseValues == {Rat(-1, 1), Zero, One}

\* np.sqrt(variance) as far as the normal generator tells it apart:
\* not-a-number below zero (a warning, no exception), zero at zero.
SqrtClass(variance) ==
    IF Lt(variance, Zero) THEN NaN ELSE IF variance = Zero THEN Zero ELSE One

\* np.random.normal(0, scale): the values one deviate can take.  A zero scale
\* gives the mean exactly, a not-a-number scale gives not-a-number.
NormalSamples(scale, values) ==
    IF IsNaN(scale) THEN {NaN} ELSE IF scale = Zero THEN {Zero} ELSE values

\* Whether np.random.normal may raise ValueError("scale < 0") for this scale.
\* sqrt of a negative number is a not-a-number with the sign bit set: numpy
\* releases that test only the sign bit raise, those that exempt not-a-number
\* do not.  The repository pins no release.
NormalMayRaise(scale) == IsNaN(scale)

\* Lines 71-72: z = noise; z += x.
Measure(dev, truth) == [i \in DOMAIN dev |-> Add(dev[i], truth[i])]

\* Lines 76 and 80.
InitialXEstimate(n) == StoreAt(zeros(n), 0, Zero)

\* Lines 77 and 81.
InitialErrorEstimate(n) == StoreAt(zeros(n), 0, One)

\* Variant of the set-up: both variances checked first, a negative one raises.
SetupAValidating ==
    /\ pc = "start"
    /\ IF Lt(process_variance, Zero) \/ Lt(measurement_variance, Zero)
       THEN /\ pc' = "raised"
            /\ UNCHANGED <<x, z, x_estimate, error_estimate, k>>
       ELSE /\ x' = zeros(n_of_points)
            /\ z' = Measure(noise, zeros(n_of_points))
            /\ x_estimate' = InitialXEstimate(n_of_points)
            /\ error_estimate' = InitialErrorEstimate(n_of_points)
            /\ k' = 1
            /\ pc' = "loop"
    /\ UNCHANGED <<params, model_variance, kalman_gain, executed>>

\* Lines 66-81: generate x and z, allocate the estimates, set the initial
\* guesses.  The function has no check of its own on either variance.
SetupA ==
    /\ pc = "start"
    /\ \/ /\ NormalMayRaise(SqrtClass(measurement_variance))
          /\ pc' = "raised"
          /\ UNCHANGED <<x, z, x_estimate, error_estimate, k>>
       \/ /\ x' = zeros(n_of_points)
          /\ z' = Measure(noise, zeros(n_of_points))
          /\ x_estimate' = InitialXEstimate(n_of_points)
          /\ error_estimate' = InitialErrorEstimate(n_of_points)
          /\ k' = 1
          /\ pc' = "loop"
    /\ UNCHANGED <<params, model_variance, kalman_gain, executed>>

Setup == SetupA /\ UNCHANGED <<z_b, x_estimate_b, error_estimate_b>>

\* Variant of the loop body: the results stored at index kk - 1.
IterationShifted(xe, ee, zz, kk, pvar, rvar) ==
    LET mvar == _calculate_model_variance(ee[kk - 1], pvar)
        gain == _calculate_kalman_gain(mvar, rvar)
    IN  [model_variance |-> mvar,
         kalman_gain |-> gain,
         x_estimate |-> StoreAt(xe, kk - 1,
                            _calculate_x_estimate(xe[kk - 1], gain, zz[kk])),
         error_estimate |-> StoreAt(ee, kk - 1, _calculate_error_estimate(gain, mvar))]

\* Variant of the loop body: the measurement read at index kk - 1.
IterationStale(xe, ee, zz, kk, pvar, rvar) ==
    LET mvar == _calculate_model_variance(ee[kk - 1], pvar)
        gain == _calculate_kalman_gain(mvar, rvar)
    IN  [model_variance |-> mvar,
         kalman_gain |-> gain,
         x_estimate |-> StoreAt(xe, kk,
                            _calculate_x_estimate(xe[kk - 1], gain, zz[kk - 1])),
         error_estimate |-> StoreAt(ee, kk, _calculate_error_estimate(gain, mvar))]

\* Lines 84-102: the body of the loop at index kk, on the sequences of one run.
Iteration(xe, ee, zz, kk, pvar, rvar) ==
    LET mvar == _calculate_model_variance(ee[kk - 1], pvar)
        gain == _calculate_kalman_gain(mvar, rvar)
    IN  [model_variance |-> mvar,
         kalman_gain |-> gain,
         x_estimate |-> StoreAt(xe, kk, _calculate_x_estimate(xe[kk - 1], gain, zz[kk])),
         error_estimate |-> StoreAt(ee, kk, _calculate_error_estimate(gain, mvar))]

\* Lines 83-102: one iteration of the loop.
LoopBodyA ==
    /\ pc = "loop"
    /\ k \in LoopRange(n_of_points)
    /\ LET it == Iteration(x_estimate, error_estimate, z, k,
                           process_variance, measurement_variance)
       IN  /\ model_variance' = <<it.model_variance>>
           /\ kalman_gain' = <<it.kalman_gain>>
           /\ x_estimate' = it.x_estimate
           /\ error_estimate' = it.error_estimate
    /\ k' = k + 1
    /\ executed' = Append(executed, k)
    /\ UNCHANGED <<pc, params, x, z>>

LoopBody == LoopBodyA /\ UNCHANGED <<z_b, x_estimate_b, error_estimate_b>>

\* Line 104: the loop is exhausted, the four sequences are returned.
ReturnA ==
    /\ pc = "loop"
    /\ k \notin LoopRange(n_of_points)
    /\ pc' = "done"
    /\ UNCHANGED <<params, x, z, x_estimate, error_estimate, k,
                   model_variance, kalman_gain, executed>>

Return == ReturnA /\ UNCHANGED <<z_b, x_estimate_b, error_estimate_b>>

\* State before kalman_filter runs, for given parameters and deviates.
Start(n, rvar, pvar, dev, dev_b) ==
    /\ pc = "start"
    /\ n_of_points = n
    /\ measurement_variance = rvar
    /\ process_variance = pvar
    /\ noise = dev
    /\ noise_b = dev_b
    /\ x = <<>>
    /\ z = <<>>
    /\ x_estimate = <<>>
    /\ error_estimate = <<>>
    /\ k = 0
    /\ model_variance = <<>>
    /\ kalman_gain = <<>>
    /\ executed = <<>>
    /\ z_b = <<>>
    /\ x_estimate_b = <<>>
    /\ error_estimate_b = <<>>

\* Constant sequences of length n over a set of values.
Constants(n, values) == {[i \in 0 .. n - 1 |-> v] : v \in values}

Init ==
    \/ \E n \in 1 .. MaxN, rvar \in Variances, pvar \in Variances :
         \E dev \in [0 .. n - 1 -> NormalSamples(SqrtClass(rvar), NoiseValues)] :
            Start(n, rvar, pvar, dev, <<>>)
    \/ \E rvar \in Variances :
         \E dev \in Constants(LongN, NormalSamples(SqrtClass(rvar), NoiseValues)) :
            Start(LongN, rvar, Zero, dev, <<>>)

Next == Setup \/ LoopBody \/ Return

Spec == Init /\ [][Next]_vars

\* The interpreter runs the single thread on: a statement that can execute does.
FairSpec == Spec /\ WF_vars(Next)

(***************************************************************************)
(* Two runs of kalman_filter with the same parameters and initial guesses, *)
(* each on its own deviates, advanced together.                            *)
(***************************************************************************)
SetupPair ==
    /\ SetupA
    /\ IF pc' = "raised"
       THEN UNCHANGED <<z_b, x_estimate_b, error_estimate_b>>
       ELSE /\ z_b' = Measure(noise_b, zeros(n_of_points))
            /\ x_estimate_b' = InitialXEstimate(n_of_points)
            /\ error_estimate_b' = InitialErrorEstimate(n_of_points)

LoopBodyPair ==
    /\ LoopBodyA
    /\ LET it == Iteration(x_estimate_b, error_estimate_b, z_b, k,
                           process_variance, measurement_variance)
       IN  /\ x_estimate_b' = it.x_estimate
           /\ error_estimate_b' = it.error_estimate
    /\ UNCHANGED z_b

ReturnPair == ReturnA /\ UNCHANGED <<z_b, x_estimate_b, error_estimate_b>>

InitPair ==
    \E n \in 1 .. MaxPairN, rvar \in Variances, pvar \in Variances :
       \E dev \in [0 .. n - 1 -> NormalSamples(SqrtClass(rvar), PairNoiseValues)],
          dev_b \in [0 .. n - 1 -> NormalSamples(SqrtClass(rvar), PairNoiseValues)] :
          Start(n, rvar, pvar, dev, dev_b)

NextPair == SetupPair \/ LoopBodyPair \/ ReturnPair

SpecPair == InitPair /\ [][NextPair]_vars

(***************************************************************************)
(* Vocabulary of the properties.                                           *)
(***************************************************************************)
\* The sequences exist: kalman_filter is past line 81.
Allocated == pc \in {"loop", "done"}

\* Indices whose entries are final: 0 and those the loop has been through.
Written == IF Allocated THEN 0 .. k - 1 ELSE {}

\* Both variances non-negative / the filter's intended configuration.
NonNegativeVariances == Leq(Zero, process_variance) /\ Leq(Zero, measurement_variance)

\* a rounded to four decimal places, in ten-thousandths (half rounds up).
Round4(a) == (2 * 10000 * a.n + a.d) \div (2 * a.d)

\* z[1] + ... + z[j]
RECURSIVE SumZ(_, _)
SumZ(zz, j) == IF j = 0 THEN Zero ELSE Add(SumZ(zz, j - 1), zz[j])

\* The integer i as a value.
Num(i) == Rat(i, 1)

(***************************************************************************)
(* C1.  Golden values on z = [0, 1, -1, 0.5], process variance 0,          *)
(* measurement variance 0.1.                                               *)
(***************************************************************************)
GoldenRun ==
    /\ Allocated
    /\ n_of_points = 4
    /\ process_variance = Zero
    /\ measurement_variance = Rat(1, 10)
    /\ z = (0 :> Zero @@ 1 :> One @@ 2 :> Rat(-1, 1) @@ 3 :> Rat(1, 2))

GoldenStep1 ==
    /\ model_variance = <<One>>
    /\ kalman_gain = <<Div(One, Rat(11, 10))>>
    /\ Round4(kalman_gain[1]) = 9091
    /\ Round4(x_estimate[1]) = 9091
    /\ Round4(error_estimate[1]) = 909

GoldenStep2Common ==
    /\ Round4(model_variance[1]) = 909
    /\ Round4(kalman_gain[1]) = 4762
    /\ Round4(error_estimate[2]) = 476

\* C1 as stated: after step 1 the values are 1.0, 1.0/1.1, 0.9091, 0.0909 and
\* after step 2 they are 0.0909, 0.4762, x_hat[2] = 0.4334, 0.0476.
C1_GoldenAsStated ==
    GoldenRun =>
        /\ k = 2 => GoldenStep1
        /\ k = 3 => GoldenStep2Common /\ Round4(x_estimate[2]) = 4334

\* C1 amended: the same golden values, except that x_hat[2] is 0.0000: the
\* measurements z[1] = 1 and z[2] = -1 cancel in the estimate.
C1_Golden ==
    GoldenRun =>
        /\ k = 2 => GoldenStep1
        /\ k = 3 => GoldenStep2Common /\ Round4(x_estimate[2]) = 0

C1_Witness == GoldenRun /\ k = 3 /\ x_estimate[2] = Zero /\ error_estimate[2] = Rat(1, 21)

(***************************************************************************)
(* C2.  The error estimate never goes negative.                            *)
(***************************************************************************)
ErrorEstimateNonNegative ==
    \A i \in DOMAIN error_estimate : Leq(Zero, error_estimate[i])

\* C2 as stated: for all non-negative variances, both zero included, every
\* entry of the error estimate satisfies P[k] >= 0.
C2_NonNegativeAsStated == NonNegativeVariances => ErrorEstimateNonNegative

\* C2 amended: for non-negative variances that are not both zero, every entry
\* of the error estimate satisfies P[k] >= 0.
C2_NonNegative ==
    (NonNegativeVariances /\ ~(process_variance = Zero /\ measurement_variance = Zero))
        => ErrorEstimateNonNegative

C2_Witness ==
    /\ pc = "done"
    /\ n_of_points >= 3
    /\ Lt(Zero, process_variance)
    /\ measurement_variance = Zero
    /\ error_estimate[2] = Zero
    /\ model_variance = <<process_variance>>

(***************************************************************************)
(* C3.  The gain is in [0, 1].                                             *)
(***************************************************************************)
\* C3: with measurement variance > 0 and process variance >= 0 the gain
\* computed at every step lies in the closed interval [0, 1].
C3_GainInUnitInterval ==
    (Lt(Zero, measurement_variance) /\ Leq(Zero, process_variance)) =>
        \A i \in DOMAIN kalman_gain :
            Leq(Zero, kalman_gain[i]) /\ Leq(kalman_gain[i], One)

C3_Witness ==
    /\ pc = "done"
    /\ Lt(Zero, measurement_variance)
    /\ Lt(Zero, process_variance)
    /\ executed = <<1, 2, 3>>
    /\ Lt(Zero, kalman_gain[1])
    /\ Lt(kalman_gain[1], One)

(***************************************************************************)
(* C4.  Without process noise the error estimate never grows.              *)
(***************************************************************************)
\* C4: with process variance 0 and measurement variance > 0, P[k] <= P[k-1]
\* for every k in 1..N-1, and a run longer than eleven steps ends with
\* P[N-1] < P[10].
C4_ErrorNonIncreasing ==
    (process_variance = Zero /\ Lt(Zero, measurement_variance)) =>
        /\ \A i \in Written \ {0} : Leq(error_estimate[i], error_estimate[i - 1])
        /\ (pc = "done" /\ n_of_points - 1 > 10) =>
               Lt(error_estimate[n_of_points - 1], error_estimate[10])

C4_Witness ==
    /\ pc = "done"
    /\ process_variance = Zero
    /\ measurement_variance = Rat(1, 10)
    /\ n_of_points - 1 > 10
    /\ Lt(error_estimate[n_of_points - 1], error_estimate[10])
    /\ Lt(error_estimate[10], error_estimate[0])

(***************************************************************************)
(* C5.  Negative variances.                                                *)
(***************************************************************************)
NegativeVariance == Lt(process_variance, Zero) \/ Lt(measurement_variance, Zero)

\* C5 as stated: with a negative process or measurement variance the filter
\* fails before any step of the recursion: no iteration runs and nothing is
\* returned.
C5_RejectedAsStated ==
    NegativeVariance => (executed = <<>> /\ pc # "done")

\* C5 amended: kalman_filter checks neither variance.  With a negative process
\* variance and a non-negative measurement variance nothing is raised and the
\* loop runs to the end; the only failure is the normal generator's, for a
\* negative measurement variance, and it happens before any iteration.
C5_NoValidation ==
    /\ (Lt(process_variance, Zero) /\ Leq(Zero, measurement_variance)) =>
           /\ pc # "raised"
           /\ pc = "done" => executed = [i \in LoopRange(n_of_points) |-> i]
    /\ pc = "raised" => (Lt(measurement_variance, Zero) /\ executed = <<>>)

C5_Witness ==
    /\ pc = "done"
    /\ Lt(process_variance, Zero)
    /\ Lt(Zero, measurement_variance)
    /\ executed = <<1, 2, 3>>
    /\ Lt(error_estimate[2], Zero)

(***************************************************************************)
(* C6.  Lengths and iteration count.                                       *)
(***************************************************************************)
IterationsInOrder ==
    /\ executed = [i \in 1 .. Len(executed) |-> i]
    /\ Len(executed) <= n_of_points - 1
    /\ pc = "loop" => k = Len(executed) + 1
    /\ pc = "done" =>
           /\ DOMAIN x = 0 .. n_of_points - 1
           /\ DOMAIN x_estimate = 0 .. n_of_points - 1
           /\ DOMAIN z = 0 .. n_of_points - 1
           /\ DOMAIN error_estimate = 0 .. n_of_points - 1
           /\ Len(executed) = n_of_points - 1

\* C6: for every N >= 1 the four returned sequences have length N, the loop
\* body runs exactly for k = 1, ..., N-1, in that order, and the function then
\* ends (it returns, unless the noise generator raised before the loop).
C6_LengthsAndIterations ==
    /\ []IterationsInOrder
    /\ <>(pc \in {"done", "raised"})

C6_Witness ==
    /\ pc = "done"
    /\ n_of_points = 4
    /\ executed = <<1, 2, 3>>
    /\ DOMAIN x_estimate = 0 .. 3

(***************************************************************************)
(* C7.  What one iteration writes.                                         *)
(***************************************************************************)
\* A step of the loop body: it is the only step that extends the history.
IterationStep == executed' # executed

\* The step leaves sequence s alone, except perhaps at index i.
OnlyAt(s, t, i) ==
    /\ DOMAIN t = DOMAIN s
    /\ \A j \in DOMAIN s \ {i} : t[j] = s[j]

IterationFrame ==
    IterationStep =>
        /\ executed' = Append(executed, k)
        /\ k' = k + 1
        /\ k \notin Written
        /\ OnlyAt(x_estimate, x_estimate', k)
        /\ OnlyAt(error_estimate, error_estimate', k)
        /\ x' = x
        /\ z' = z

\* An entry that is final is not written again, by any step.
WriteOnce ==
    \A i \in Written :
        x_estimate'[i] = x_estimate[i] /\ error_estimate'[i] = error_estimate[i]

InitialGuessesReturned ==
    pc = "done" => (x_estimate[0] = Zero /\ error_estimate[0] = One)

\* C7: iteration k writes x_hat[k] and P[k] only and leaves the other entries
\* and all of x and z unchanged; k goes up by one per iteration, no entry is
\* written twice, and x_hat[0] = 0 and P[0] = 1.0 are in place at the return.
C7_FrameAndWriteOnce ==
    /\ [][IterationFrame /\ WriteOnce]_vars
    /\ []InitialGuessesReturned

C7_Witness ==
    /\ pc = "done"
    /\ executed = <<1, 2, 3>>
    /\ x_estimate[0] = Zero
    /\ error_estimate[0] = One
    /\ x_estimate[1] # Zero
    /\ x_estimate[2] # x_estimate[1]
    /\ error_estimate[1] # Zero

(***************************************************************************)
(* C8.  The outputs up to index j depend on z[1..j] only.                  *)
(***************************************************************************)
AgreeOn(s, t, idx) == \A i \in idx : s[i] = t[i]

\* C8: two runs with the same variances and initial guesses whose measurements
\* agree on indices 1..j have the same x_hat[0..j] and P[0..j], whatever z[0]
\* and the measurements after j are.
C8_PastMeasurementsOnly ==
    \A j \in Written :
        AgreeOn(z, z_b, 1 .. j) =>
            /\ AgreeOn(x_estimate, x_estimate_b, 0 .. j)
            /\ AgreeOn(error_estimate, error_estimate_b, 0 .. j)

C8_Witness ==
    /\ pc = "done"
    /\ n_of_points = 3
    /\ z[0] # z_b[0]
    /\ z[1] = z_b[1]
    /\ z[2] # z_b[2]
    /\ x_estimate[1] = x_estimate_b[1]
    /\ x_estimate[1] # Zero
    /\ x_estimate[2] # x_estimate_b[2]
    /\ error_estimate = error_estimate_b

(***************************************************************************)
(* C9.  Both variances zero.                                               *)
(***************************************************************************)
BothVariancesZero ==
    Allocated /\ process_variance = Zero /\ measurement_variance = Zero

\* C9: with both variances 0 and P[0] = 1.0, step 1 is well defined (model
\* variance 1, gain 1, x_hat[1] = z[1], P[1] = 0); at step 2 the sum of model
\* and measurement variance is 0 and the gain is not-a-number, as it is at
\* every step where that sum is 0; from step 2 on x_hat[k] and P[k] are
\* not-a-number in the sequences.
C9_NaNFromStepTwo ==
    BothVariancesZero =>
        /\ k = 2 => /\ model_variance = <<One>>
                    /\ kalman_gain = <<One>>
                    /\ x_estimate[1] = z[1]
                    /\ error_estimate[1] = Zero
        /\ k = 3 => model_variance = <<Zero>>
        /\ \A i \in DOMAIN kalman_gain :
               Add(model_variance[i], measurement_variance) = Zero
                   => IsNaN(kalman_gain[i])
        /\ k >= 3 => IsNaN(kalman_gain[1])
        /\ \A i \in Written \ {0} :
               IF i = 1
               THEN IsFinite(x_estimate[i]) /\ IsFinite(error_estimate[i])
               ELSE IsNaN(x_estimate[i]) /\ IsNaN(error_estimate[i])

C9_Witness ==
    /\ BothVariancesZero
    /\ pc = "done"
    /\ executed = <<1, 2, 3>>
    /\ error_estimate[1] = Zero
    /\ IsNaN(x_estimate[2])
    /\ IsNaN(error_estimate[3])

(***************************************************************************)
(* C10.  Closed form without process noise.                                *)
(***************************************************************************)
\* R + j * P[0]
ClosedFormDenominator(j) ==
    Add(measurement_variance, Mul(Num(j), error_estimate[0]))

\* C10: with process variance 0 and measurement variance R > 0, for every k
\* P[k] = P[0]*R / (R + k*P[0]) and x_hat[k] = P[0]*(z[1]+...+z[k]) / (R + k*P[0]);
\* with R = 0.1 that is P[k] = 1/(10k+1) and x_hat[k] = 10*(z[1]+...+z[k])/(10k+1).
C10_ClosedForm ==
    (Allocated /\ process_variance = Zero /\ Lt(Zero, measurement_variance)) =>
        \A j \in Written :
            /\ error_estimate[j] =
                   Div(Mul(error_estimate[0], measurement_variance),
                       ClosedFormDenominator(j))
            /\ x_estimate[j] =
                   Div(Mul(error_estimate[0], SumZ(z, j)), ClosedFormDenominator(j))
            /\ measurement_variance = Rat(1, 10) =>
                   /\ error_estimate[j] = Rat(1, 10 * j + 1)
                   /\ x_estimate[j] = Div(Mul(Num(10), SumZ(z, j)), Num(10 * j + 1))

C10_Witness ==
    /\ pc = "done"
    /\ process_variance = Zero
    /\ measurement_variance = Rat(1, 10)
    /\ n_of_points = 4
    /\ error_estimate[3] = Rat(1, 31)
    /\ x_estimate[3] = Rat(25, 31)

====
